---------------------------- MODULE Spec2Model ----------------------------
(***************************************************************************)
(* A model of src/src/core-js-dates-tasks.js: the exported date functions, *)
(* over an explicit model of the ECMAScript Date object they are written   *)
(* against.                                                                *)
(*                                                                         *)
(* A time value (the number a Date object holds) is kept as a record       *)
(* [day, ms]: whole days since 1970-01-01 UTC and milliseconds within the  *)
(* day, i.e. the time value day * msPerDay + ms.  A string is a sequence   *)
(* of one-character strings.  The host's time zone is part of the state:   *)
(* the local getters, setters and constructors of Date depend on it.       *)
(***************************************************************************)
EXTENDS Integers, Sequences, FiniteSets, TLC

VARIABLES
    zone,   \* the host's time zone (environment of every local Date method)
    fn,     \* the exported function that was called, "none" before the call
    pc,     \* "ready" (before the call), "search" (in findNextFriday), "done"
    date,   \* time value of the caller's Date object (NoDate: no Date argument)
    date0,  \* the time value the caller's Date object had when it was created
    args,   \* the other arguments of the call
    ret,    \* the value returned
    steps   \* one-day steps taken by findNextFriday

vars == <<zone, fn, pc, date, date0, args, ret, steps>>

---------------------------------------------------------------------------
(* Time constants, as the source writes them (24 * 60 * 60 * 1000).        *)

msPerSecond == 1000
msPerMinute == 60 * msPerSecond
msPerHour   == 60 * msPerMinute
msPerDay    == 24 * msPerHour
daysPerWeek == 7

NoDate == [day |-> 0, ms |-> -1]
NoArgs == <<>>
NoRet  == [kind |-> "none"]

TV(day, ms) == [day |-> day, ms |-> ms]

\* MakeDate(day, time): a day number and milliseconds, which may lie outside
\* the day, as one normalised time value.
MakeDate(day, time) == TV(day + (time \div msPerDay), time % msPerDay)

AddMs(t, delta) == MakeDate(t.day, t.ms + delta)

\* t + n * 24 * 60 * 60 * 1000
AddDays(t, n) == TV(t.day + n, t.ms)

\* t1 - t2 in days, as the pair <<whole days, remaining ms>> (floor division)
DiffDays(t1, t2) ==
    LET d == MakeDate(t1.day - t2.day, t1.ms - t2.ms) IN <<d.day, d.ms>>

Before(t1, t2) == t1.day < t2.day \/ (t1.day = t2.day /\ t1.ms < t2.ms)

---------------------------------------------------------------------------
(* The proleptic Gregorian calendar of ECMAScript (Day, YearFromTime,      *)
(* MonthFromTime, DateFromTime, WeekDay, MakeDay).  Months are 0..11.      *)

InLeapYear(y) == (y % 4 = 0 /\ y % 100 # 0) \/ y % 400 = 0

\* Day number of 1 January of year y.
DayFromYear(y) ==
    365 * (y - 1970) + ((y - 1969) \div 4) - ((y - 1901) \div 100)
        + ((y - 1601) \div 400)

MonthLengths(y) ==
    <<31, IF InLeapYear(y) THEN 29 ELSE 28, 31, 30, 31, 30, 31, 31, 30, 31, 30, 31>>

RECURSIVE DaysBeforeMonth(_, _)
DaysBeforeMonth(y, m) ==
    IF m = 0 THEN 0 ELSE DaysBeforeMonth(y, m - 1) + MonthLengths(y)[m]

RECURSIVE YearFromDay(_, _)
\* The year holding day number d, searched from the estimate y.
YearFromDay(d, y) ==
    IF d < DayFromYear(y) THEN YearFromDay(d, y - 1)
    ELSE IF d >= DayFromYear(y + 1) THEN YearFromDay(d, y + 1)
    ELSE y

YearFromTime(t) == YearFromDay(t.day, 1970 + (t.day \div 365))

DayWithinYear(t) == t.day - DayFromYear(YearFromTime(t))

RECURSIVE MonthFromDayInYear(_, _, _)
MonthFromDayInYear(y, diy, m) ==
    IF diy < DaysBeforeMonth(y, m + 1) THEN m
    ELSE MonthFromDayInYear(y, diy, m + 1)

MonthFromTime(t) == MonthFromDayInYear(YearFromTime(t), DayWithinYear(t), 0)

DateFromTime(t) ==
    DayWithinYear(t) - DaysBeforeMonth(YearFromTime(t), MonthFromTime(t)) + 1

\* 0 = Sunday .. 6 = Saturday; 1970-01-01 was a Thursday.
WeekDay(t) == (t.day + 4) % daysPerWeek

\* MakeDay(year, month, date): month and date may lie outside their ranges
\* and roll over, as in every Date constructor and setter.
MakeDay(year, month, dt) ==
    LET ym == year + (month \div 12)
        mn == month % 12
    IN  DayFromYear(ym) + DaysBeforeMonth(ym, mn) + dt - 1


---------------------------------------------------------------------------
(* The host's time zone.  A zone is its standard offset from UTC in        *)
(* minutes and whether it keeps European summer time (one hour ahead from  *)
(* 01:00 UTC of the last Sunday of March to 01:00 UTC of the last Sunday   *)
(* of October).  LocalTime and UTC are ECMAScript's LocalTime(t) and       *)
(* UTC(t): a local time that occurs twice is read with the offset before   *)
(* the transition, and so is one that is skipped.                          *)

ZoneUTC     == [name |-> "UTC", std |-> 0, dst |-> FALSE]
ZoneBogota  == [name |-> "America/Bogota", std |-> -300, dst |-> FALSE]
ZoneMinsk   == [name |-> "Europe/Minsk", std |-> 180, dst |-> FALSE]
ZoneKolkata == [name |-> "Asia/Kolkata", std |-> 330, dst |-> FALSE]
ZoneBerlin  == [name |-> "Europe/Berlin", std |-> 60, dst |-> TRUE]

\* Day number of the last Sunday of month m (0..11) of year y.
LastSunday(y, m) ==
    LET last == MakeDay(y, m + 1, 0)
    IN  last - WeekDay(TV(last, 0))

InSummerTime(t) ==
    LET y == YearFromTime(t)
    IN  /\ ~Before(t, TV(LastSunday(y, 2), msPerHour))
        /\ Before(t, TV(LastSunday(y, 9), msPerHour))

\* Offset from UTC, in ms, in force at the UTC time value t.
LocalTZA(z, t) ==
    (z.std + (IF z.dst /\ InSummerTime(t) THEN 60 ELSE 0)) * msPerMinute

LocalTime(z, t) == AddMs(t, LocalTZA(z, t))

\* The UTC time value of the local time value lt.
UTC(z, lt) ==
    LET summer == AddMs(lt, -((z.std + 60) * msPerMinute))
        winter == AddMs(lt, -(z.std * msPerMinute))
    IN  IF z.dst /\ InSummerTime(summer) THEN summer ELSE winter

---------------------------------------------------------------------------
(* The methods of Date the source calls, on time values.                   *)

HourFromTime(t) == t.ms \div msPerHour
MinFromTime(t)  == (t.ms \div msPerMinute) % 60
SecFromTime(t)  == (t.ms \div msPerSecond) % 60

getUTCDay(t)      == WeekDay(t)
getUTCDate(t)     == DateFromTime(t)
getUTCMonth(t)    == MonthFromTime(t)
getUTCFullYear(t) == YearFromTime(t)
getUTCHours(t)    == HourFromTime(t)

getFullYear(z, t) == YearFromTime(LocalTime(z, t))
getMonth(z, t)    == MonthFromTime(LocalTime(z, t))
getDate(z, t)     == DateFromTime(LocalTime(z, t))
getHours(z, t)    == HourFromTime(LocalTime(z, t))
getMinutes(z, t)  == MinFromTime(LocalTime(z, t))
getSeconds(z, t)  == SecFromTime(LocalTime(z, t))

\* date.setUTCDate(dt): the day of the month replaced, the time of day kept.
setUTCDate(t, dt) == TV(MakeDay(YearFromTime(t), MonthFromTime(t), dt), t.ms)

\* date.setUTCMonth(m): the month replaced, day of the month and time kept.
setUTCMonth(t, m) == TV(MakeDay(YearFromTime(t), m, DateFromTime(t)), t.ms)

\* date.setDate(dt): as setUTCDate, on the local fields.
setDate(z, t, dt) ==
    LET lt == LocalTime(z, t)
    IN  UTC(z, TV(MakeDay(YearFromTime(lt), MonthFromTime(lt), dt), lt.ms))

\* A year argument of 0..99 means 1900..1999 (MakeFullYear).
MakeFullYear(y) == IF y >= 0 /\ y <= 99 THEN 1900 + y ELSE y

\* Date.UTC(year, month, dt)
DateUTC(year, month, dt) == TV(MakeDay(MakeFullYear(year), month, dt), 0)

\* new Date(year, month, dt): midnight of that day in the host's zone.
NewLocalDate(z, year, month, dt) ==
    UTC(z, TV(MakeDay(MakeFullYear(year), month, dt), 0))

\* Date.parse(date) of a Date object: the object is first converted to a
\* string by Date.prototype.toString, which prints no milliseconds, and the
\* string is parsed back: the time value cut down to a whole second.
ParseDateObject(t) == TV(t.day, t.ms - (t.ms % msPerSecond))

---------------------------------------------------------------------------
(* Strings: sequences of one-character strings.                            *)

DigitChars == <<"0", "1", "2", "3", "4", "5", "6", "7", "8", "9">>

RECURSIVE NatToString(_)
NatToString(n) ==
    IF n < 10 THEN <<DigitChars[n + 1]>>
    ELSE NatToString(n \div 10) \o <<DigitChars[(n % 10) + 1]>>

\* String(n) of an integer, as string concatenation and template literals
\* convert a number.
NumberToString(n) == IF n < 0 THEN <<"-">> \o NatToString(-n) ELSE NatToString(n)

DigitValue(c) == CHOOSE d \in 0..9 : DigitChars[d + 1] = c

RECURSIVE StringToNumber(_)
\* ToNumber of a string of decimal digits ("" is 0), as the unary plus, the
\* subtraction and the Date constructor convert a string.
StringToNumber(str) ==
    IF Len(str) = 0 THEN 0
    ELSE 10 * StringToNumber(SubSeq(str, 1, Len(str) - 1)) + DigitValue(str[Len(str)])

RECURSIVE SplitFrom(_, _, _, _)
SplitFrom(str, sep, i, cur) ==
    IF i > Len(str) THEN <<cur>>
    ELSE IF str[i] = sep THEN <<cur>> \o SplitFrom(str, sep, i + 1, <<>>)
    ELSE SplitFrom(str, sep, i + 1, Append(cur, str[i]))

\* str.split(sep) for a one-character separator
Split(str, sep) == SplitFrom(str, sep, 1, <<>>)

\* Date.parse of 'YYYY-MM-DDTHH:mm:ss.sssZ': the fields are those of UTC.
ParseISO(str) ==
    LET num(a, b) == StringToNumber(SubSeq(str, a, b))
    IN  MakeDate(MakeDay(num(1, 4), num(6, 7) - 1, num(9, 10)),
                 num(12, 13) * msPerHour + num(15, 16) * msPerMinute
                     + num(18, 19) * msPerSecond + num(21, 23))

---------------------------------------------------------------------------
(* The exported functions that return without looping.                     *)

StringRet(str)  == [kind |-> "string", val |-> str]
BooleanRet(b)   == [kind |-> "boolean", val |-> b]
\* A number: int + frac / msPerDay with 0 <= frac < msPerDay.
NumberRet(n, f) == [kind |-> "number", int |-> n, frac |-> f]
\* A Date object: its time value, and whether it is the caller's own object.
DateRet(t, own) == [kind |-> "Date", tv |-> t, same |-> own]
ArrayRet(a)     == [kind |-> "array", val |-> a]

getTime(z, d) ==
    LET hour   == getHours(z, d)
        minute == getMinutes(z, d)
        second == getSeconds(z, d)
        temp1  == (IF hour < 10 THEN <<"0">> ELSE <<>>) \o NumberToString(hour)
        temp2  == temp1 \o (IF minute < 10 THEN <<":", "0">> ELSE <<":">>)
                        \o NumberToString(minute)
    IN  temp2 \o (IF second < 10 THEN <<":", "0">> ELSE <<":">>)
              \o NumberToString(second)

\* The days getNextFriday adds for the UTC weekday w.
NextFridayDays(w) ==
    IF w > 5 THEN w
    ELSE IF w = 5 THEN 7
    ELSE 5 - w

getNextFriday(d) ==
    DateRet(AddDays(ParseDateObject(d), NextFridayDays(getUTCDay(d))), FALSE)

getCountDaysOnPeriod(dateStart, dateEnd) ==
    LET diff == DiffDays(ParseISO(dateEnd), ParseISO(dateStart))
    IN  NumberRet(diff[1] + 1, diff[2])

\* HourText without the line "if (hour === 0) temp = '12'"
HourTextNoMidnight(hour) == NumberToString(IF hour > 12 THEN hour - 12 ELSE hour)

\* The hour as formatDate prints it.
HourText(hour) ==
    IF hour = 0 THEN <<"1", "2">>
    ELSE NumberToString(IF hour > 12 THEN hour - 12 ELSE hour)

formatDate(z, str) ==
    LET myDate    == ParseISO(str)
        dayOfDate == NumberToString(getUTCMonth(myDate) + 1) \o <<"/">>
                        \o NumberToString(getUTCDate(myDate)) \o <<"/">>
                        \o NumberToString(getUTCFullYear(myDate))
        hour      == getUTCHours(myDate)
        minute    == getMinutes(z, myDate)
        second    == getSeconds(z, myDate)
        temp1     == HourText(hour)
        temp2     == temp1 \o (IF minute < 10 THEN <<":", "0">> ELSE <<":">>)
                           \o NumberToString(minute)
        temp3     == temp2 \o (IF second < 10 THEN <<":", "0">> ELSE <<":">>)
                           \o NumberToString(second)
        temp4     == temp3 \o (IF hour >= 12 THEN <<" ", "P", "M">>
                                             ELSE <<" ", "A", "M">>)
    IN  dayOfDate \o <<",", " ">> \o temp4

\* The date getWeekNumberByDate counts the weeks from.
FirstMondayOfYear(currentYear) ==
    LET firstDayOfYear == DateUTC(currentYear, 0, 1)
        dayOfFirstThursdayOfYear ==
            IF getUTCDay(firstDayOfYear) <= 4
            THEN DateUTC(currentYear, 0, 1 + (4 - getUTCDay(firstDayOfYear)))
            ELSE DateUTC(currentYear, 0, 1 + (7 - getUTCDay(firstDayOfYear) + 4))
    IN  setUTCDate(dayOfFirstThursdayOfYear, getUTCDay(dayOfFirstThursdayOfYear) - 3)

getWeekNumberByDate(z, d) ==
    LET myDate      == DateUTC(getFullYear(z, d), getMonth(z, d), getDate(z, d))
        currentYear == getFullYear(z, myDate)
        diff        == DiffDays(myDate, FirstMondayOfYear(currentYear))
    IN  (diff[1] \div daysPerWeek) + 1

QuarterTable == <<<<1, 2, 3>>, <<4, 5, 6>>, <<7, 8, 9>>, <<10, 11, 12>>>>

RECURSIVE QuarterLoop(_, _, _)
QuarterLoop(month, i, quarter) ==
    IF i > Len(QuarterTable) THEN quarter
    ELSE QuarterLoop(month, i + 1,
                     IF \E k \in 1..Len(QuarterTable[i]) : QuarterTable[i][k] = month
                     THEN i ELSE quarter)

getQuarter(z, d) ==
    LET myDate == DateUTC(getFullYear(z, d), getMonth(z, d), getDate(z, d))
    IN  QuarterLoop(getUTCMonth(myDate) + 1, 1, 0)

\* isLeapYear: the caller's Date after the call, and the value returned.
LeapProbe(d) == setUTCMonth(d, 2)

isLeapYear(d) == getUTCDate(LeapProbe(d)) = 29

---------------------------------------------------------------------------
(* getWorkSchedule: the while loop, and the for loop inside it.            *)

\* One entry of the schedule: the cursor's local date as text.
ScheduleEntry(z, dataStart) ==
    LET month == IF getMonth(z, dataStart) + 1 < 10
                 THEN <<"0">> \o NumberToString(getMonth(z, dataStart) + 1)
                 ELSE NumberToString(getMonth(z, dataStart) + 1)
        dt    == IF getDate(z, dataStart) < 10
                 THEN <<"0">> \o NumberToString(getDate(z, dataStart))
                 ELSE NumberToString(getDate(z, dataStart))
    IN  dt \o <<"-">> \o month \o <<"-">> \o NumberToString(getFullYear(z, dataStart))

RECURSIVE WorkDaysLoop(_, _, _, _, _, _)
\* for (let i = 0; i < countWorkDays; i += 1): the cursor and the schedule
\* after the loop.
WorkDaysLoop(z, dataStart, dataEnd, i, countWorkDays, schedule) ==
    IF ~(i < countWorkDays) THEN <<dataStart, schedule>>
    ELSE LET next == setUTCDate(dataStart, getUTCDate(dataStart) + 1)
         IN  WorkDaysLoop(z, next, dataEnd, i + 1, countWorkDays,
                          IF Before(next, dataEnd)
                          THEN Append(schedule, ScheduleEntry(z, next))
                          ELSE schedule)

RECURSIVE ScheduleLoop(_, _, _, _, _, _)
\* while (dataStart < dataEnd)
ScheduleLoop(z, dataStart, dataEnd, countWorkDays, countOffDays, schedule) ==
    IF ~Before(dataStart, dataEnd) THEN schedule
    ELSE LET worked == WorkDaysLoop(z, dataStart, dataEnd, 0, countWorkDays, schedule)
         IN  ScheduleLoop(z, setUTCDate(worked[1], getUTCDate(worked[1]) + countOffDays),
                          dataEnd, countWorkDays, countOffDays, worked[2])

getWorkSchedule(z, period, countWorkDays, countOffDays) ==
    LET start     == Split(period.start, "-")
        end       == Split(period.end, "-")
        dataStart == NewLocalDate(z, StringToNumber(start[3]),
                                  StringToNumber(start[2]) - 1, StringToNumber(start[1]))
        dataEnd   == NewLocalDate(z, StringToNumber(end[3]),
                                  StringToNumber(end[2]) - 1, StringToNumber(end[1]) + 1)
    IN  ScheduleLoop(z, setUTCDate(dataStart, getUTCDate(dataStart) - 1), dataEnd,
                     countWorkDays, countOffDays, <<>>)

---------------------------------------------------------------------------
(* getNextFridayThe13th: findNextFriday works on the caller's Date object, *)
(* one call of it per step.                                                *)

\* The test findNextFriday returns on.
IsFriday13(d) == getUTCDay(d) = 5 /\ getUTCDate(d) = 13

\* NextDay with getUTCDay written for getUTCDate
NextDayFromWeekDay(d) == setUTCDate(d, getUTCDay(d) + 1)

\* currentDate.setUTCDate(currentDate.getUTCDate() + 1)
NextDay(d) == setUTCDate(d, getUTCDate(d) + 1)

\* result.setDate(13), on the object findNextFriday returned
ForceDate13(z, d) == setDate(z, d, 13)

---------------------------------------------------------------------------
(* Bounds of the model.                                                    *)

\* Caller's dates: NumDays days from 1 December 2019.  They hold two Fridays
\* the 13th (13-12-2019, 13-03-2020), the turn of a year that does not start
\* on a Monday, and a leap day.
NumDays == 103
FirstDay == MakeDay(2019, 11, 1)
\* Times of day of the caller's dates: 00:00:00.000 and 22:30:15.500.
TimesOfDay == {0, 22 * msPerHour + 30 * msPerMinute + 15 * msPerSecond + 500}
DateZones == {ZoneUTC, ZoneBogota, ZoneBerlin}

\* Starting dates of the long searches: SearchDays days from 13 August 2027,
\* a Friday the 13th; the next one is 13 October 2028, the longest distance
\* between two of them that the calendar has.
SearchDays == 428
FirstSearchDay == MakeDay(2027, 7, 13)

\* The depth at which the model stops findNextFriday.
MaxSteps == 450

---------------------------------------------------------------------------
(* Calls with a Date object as argument.                                   *)

InitDate ==
    /\ zone \in DateZones
    /\ date \in {TV(FirstDay + k, ms) : k \in 0..NumDays, ms \in TimesOfDay}
    /\ date0 = date
    /\ fn = "none"
    /\ pc = "ready"
    /\ args = NoArgs
    /\ ret = NoRet
    /\ steps = 0

Return(name, value) ==
    /\ pc = "ready"
    /\ fn' = name
    /\ pc' = "done"
    /\ ret' = value
    /\ UNCHANGED <<zone, date0, args, steps>>

GetTime ==
    /\ Return("getTime", StringRet(getTime(zone, date)))
    /\ UNCHANGED date

GetNextFriday ==
    /\ Return("getNextFriday", getNextFriday(date))
    /\ UNCHANGED date

GetWeekNumberByDate ==
    /\ Return("getWeekNumberByDate", NumberRet(getWeekNumberByDate(zone, date), 0))
    /\ UNCHANGED date

GetQuarter ==
    /\ Return("getQuarter", NumberRet(getQuarter(zone, date), 0))
    /\ UNCHANGED date

IsLeapYear ==
    /\ Return("isLeapYear", BooleanRet(isLeapYear(date)))
    /\ date' = LeapProbe(date)

\* getNextFridayThe13th(date) calls findNextFriday(date)
GetNextFridayThe13th ==
    /\ pc = "ready"
    /\ fn' = "getNextFridayThe13th"
    /\ pc' = "search"
    /\ UNCHANGED <<zone, date, date0, args, ret, steps>>

\* findNextFriday(currentDate), not on a Friday the 13th: one day on, and
\* the recursive call
FindNextFridayStep ==
    /\ pc = "search"
    /\ ~IsFriday13(date)
    /\ steps < MaxSteps
    /\ date' = NextDay(date)
    /\ steps' = steps + 1
    /\ UNCHANGED <<zone, fn, pc, date0, args, ret>>

\* findNextFriday(currentDate) on a Friday the 13th returns currentDate, and
\* getNextFridayThe13th returns new Date(result.setDate(13))
FindNextFridayReturn ==
    /\ pc = "search"
    /\ IsFriday13(date)
    /\ date' = ForceDate13(zone, date)
    /\ ret' = DateRet(date', FALSE)
    /\ pc' = "done"
    /\ UNCHANGED <<zone, fn, date0, args, steps>>

NextDate ==
    \/ GetTime
    \/ GetNextFriday
    \/ GetWeekNumberByDate
    \/ GetQuarter
    \/ IsLeapYear
    \/ GetNextFridayThe13th
    \/ FindNextFridayStep
    \/ FindNextFridayReturn

SpecDate == InitDate /\ [][NextDate]_vars

\* The same calls, from the starting dates of the long searches.
InitSearch ==
    /\ zone = ZoneUTC
    /\ date \in {TV(FirstSearchDay + k, ms) : k \in 0..SearchDays, ms \in TimesOfDay}
    /\ date0 = date
    /\ fn = "none"
    /\ pc = "ready"
    /\ args = NoArgs
    /\ ret = NoRet
    /\ steps = 0

SpecSearch == InitSearch /\ [][NextDate]_vars

---------------------------------------------------------------------------
(* Calls with strings as arguments.  The callers' strings are written from *)
(* calendar fields in the formats the doc comments give.                   *)

RECURSIVE PadZeros(_, _)
\* str with zeros in front, to a length of at least width
PadZeros(str, width) ==
    IF Len(str) >= width THEN str ELSE PadZeros(<<"0">> \o str, width)

\* 'YYYY-MM-DDTHH:mm:ss.sssZ' of a time value
ISOString(t) ==
    PadZeros(NatToString(YearFromTime(t)), 4) \o <<"-">>
        \o PadZeros(NatToString(MonthFromTime(t) + 1), 2) \o <<"-">>
        \o PadZeros(NatToString(DateFromTime(t)), 2) \o <<"T">>
        \o PadZeros(NatToString(HourFromTime(t)), 2) \o <<":">>
        \o PadZeros(NatToString(MinFromTime(t)), 2) \o <<":">>
        \o PadZeros(NatToString(SecFromTime(t)), 2) \o <<".">>
        \o PadZeros(NatToString(t.ms % msPerSecond), 3) \o <<"Z">>

\* 'DD-MM-YYYY' of a day number
DMYString(day) ==
    PadZeros(NatToString(DateFromTime(TV(day, 0))), 2) \o <<"-">>
        \o PadZeros(NatToString(MonthFromTime(TV(day, 0)) + 1), 2) \o <<"-">>
        \o PadZeros(NatToString(YearFromTime(TV(day, 0))), 4)

\* formatDate: every hour of FormatDays + 1 days from 30 December 2023, at
\* some minutes and seconds, on hosts east and west of UTC, one of them off
\* the whole hour.
FormatDays == 2
FirstFormatDay == MakeDay(2023, 11, 30)
FormatMinutes == {0, 9, 59}
FormatSeconds == {0, 7}
FormatZones == {ZoneUTC, ZoneBogota, ZoneMinsk, ZoneKolkata, ZoneBerlin}

InitFormat ==
    /\ zone \in FormatZones
    /\ date = NoDate
    /\ date0 = NoDate
    /\ fn = "none"
    /\ pc = "ready"
    /\ \E k \in 0..FormatDays, h \in 0..23, m \in FormatMinutes, sec \in FormatSeconds :
          args = [date |-> ISOString(TV(FirstFormatDay + k,
                              h * msPerHour + m * msPerMinute + sec * msPerSecond))]
    /\ ret = NoRet
    /\ steps = 0

FormatDate ==
    /\ Return("formatDate", StringRet(formatDate(zone, args.date)))
    /\ UNCHANGED date

NextFormat == FormatDate

SpecFormat == InitFormat /\ [][NextFormat]_vars

\* getCountDaysOnPeriod: two instants of PeriodDays + 1 days from 1 February
\* 2024, the second not before the first.
PeriodDays == 4
FirstPeriodDay == MakeDay(2024, 1, 1)
PeriodTimes == {0, 12 * msPerHour, msPerDay - 1}
PeriodInstants == {TV(FirstPeriodDay + k, ms) : k \in 0..PeriodDays, ms \in PeriodTimes}

InitPeriod ==
    /\ zone \in {ZoneUTC, ZoneBerlin}
    /\ date = NoDate
    /\ date0 = NoDate
    /\ fn = "none"
    /\ pc = "ready"
    /\ \E t1 \in PeriodInstants, t2 \in PeriodInstants :
          /\ ~Before(t2, t1)
          /\ args = [dateStart |-> ISOString(t1), dateEnd |-> ISOString(t2)]
    /\ ret = NoRet
    /\ steps = 0

GetCountDaysOnPeriod ==
    /\ Return("getCountDaysOnPeriod", getCountDaysOnPeriod(args.dateStart, args.dateEnd))
    /\ UNCHANGED date

NextPeriod == GetCountDaysOnPeriod

SpecPeriod == InitPeriod /\ [][NextPeriod]_vars

\* getWorkSchedule: periods within ScheduleDays + 1 days from 22 October
\* 2024 (they end in the next month, and summer time ends in them), with up
\* to MaxWorkDays working days and MaxOffDays days off.
ScheduleDays == 10
FirstScheduleDay == MakeDay(2024, 9, 22)
MaxWorkDays == 3
MaxOffDays == 2
ScheduleZones == {ZoneUTC, ZoneBogota, ZoneMinsk, ZoneBerlin}

InitSchedule ==
    /\ zone \in ScheduleZones
    /\ date = NoDate
    /\ date0 = NoDate
    /\ fn = "none"
    /\ pc = "ready"
    /\ \E a \in 0..ScheduleDays, b \in 0..ScheduleDays,
          w \in 1..MaxWorkDays, o \in 1..MaxOffDays :
          /\ a <= b
          /\ args = [period |-> [start |-> DMYString(FirstScheduleDay + a),
                                 end |-> DMYString(FirstScheduleDay + b)],
                     countWorkDays |-> w, countOffDays |-> o]
    /\ ret = NoRet
    /\ steps = 0

GetWorkSchedule ==
    /\ Return("getWorkSchedule",
              ArrayRet(getWorkSchedule(zone, args.period, args.countWorkDays,
                                       args.countOffDays)))
    /\ UNCHANGED date

NextSchedule == GetWorkSchedule

SpecSchedule == InitSchedule /\ [][NextSchedule]_vars

---------------------------------------------------------------------------
(* What the claims are stated with: the calendar, read without the code.   *)

Done(name) == fn = name /\ pc = "done"

\* The day number of the caller's date as the host's calendar shows it.
LocalDayOf(t) == LocalTime(zone, t).day

IsFriday13Day(day) == WeekDay(TV(day, 0)) = 5 /\ DateFromTime(TV(day, 0)) = 13

\* The first Thursday of year y, and the Monday of its week (ISO week 1).
FirstThursday(y) ==
    CHOOSE day \in DayFromYear(y)..(DayFromYear(y) + 6) : WeekDay(TV(day, 0)) = 4

Week1Monday(y) == FirstThursday(y) - 3

\* Position of the first ch in str.
IndexOf(str, ch) == CHOOSE i \in 1..Len(str) :
                        str[i] = ch /\ \A j \in 1..(i - 1) : str[j] # ch

\* 'M/D/YYYY, h:mm:ss AM': the part after ', ', its hour field, its suffix.
TimePart(str) == SubSeq(str, IndexOf(str, ",") + 2, Len(str))
HourField(str) == SubSeq(TimePart(str), 1, IndexOf(TimePart(str), ":") - 1)
Suffix(str) == SubSeq(str, Len(str) - 1, Len(str))

\* The UTC hour written in an ISO string.
ISOHour(str) == StringToNumber(SubSeq(str, 12, 13))

\* A 12-hour clock: 12, 1, .., 11, 12, 1, .., 11.
Hour12(h) == IF h = 0 THEN 12 ELSE IF h <= 12 THEN h ELSE h - 12

\* 'M/D/YYYY, h:mm:ss AM|PM' with every field that of the UTC instant.
UTCFormat(str) ==
    LET num(a, b) == StringToNumber(SubSeq(str, a, b))
    IN  NatToString(num(6, 7)) \o <<"/">> \o NatToString(num(9, 10)) \o <<"/">>
            \o NatToString(num(1, 4)) \o <<",", " ">>
            \o NatToString(Hour12(num(12, 13))) \o <<":">> \o SubSeq(str, 15, 16)
            \o <<":">> \o SubSeq(str, 18, 19)
            \o (IF num(12, 13) < 12 THEN <<" ", "A", "M">> ELSE <<" ", "P", "M">>)

\* The day number a 'DD-MM-YYYY' string names.
DMYDay(str) ==
    MakeDay(StringToNumber(SubSeq(str, 7, 10)), StringToNumber(SubSeq(str, 4, 5)) - 1,
            StringToNumber(SubSeq(str, 1, 2)))

RECURSIVE WorkingDays(_, _, _, _, _)
\* The working days from day to last, in order, of the cycle of work days
\* and then off days that begins on first.
WorkingDays(first, day, last, work, off) ==
    IF day > last THEN <<>>
    ELSE (IF (day - first) % (work + off) < work THEN <<DMYString(day)>> ELSE <<>>)
             \o WorkingDays(first, day + 1, last, work, off)

ExpectedSchedule ==
    WorkingDays(DMYDay(args.period.start), DMYDay(args.period.start),
                DMYDay(args.period.end), args.countWorkDays, args.countOffDays)

---------------------------------------------------------------------------
(* The claims.                                                             *)

\* C1: getWorkSchedule returns, in ascending order and each once, exactly
\* the days d of [start, end] with (d - start) mod (workDays + offDays) <
\* workDays, each as zero-padded 'DD-MM-YYYY'.
C1_ScheduleIsTheCycle ==
    Done("getWorkSchedule") => ret.val = ExpectedSchedule

\* C1 on the hosts that keep no summer time, where it holds.
C1_ScheduleWithoutSummerTime ==
    Done("getWorkSchedule") /\ ~zone.dst => ret.val = ExpectedSchedule

\* C2: for a date d on or after the Monday of ISO week 1 of its year,
\* getWeekNumberByDate(d) = floor((d - week1Monday) / 7 days) + 1.
C2_WeekNumberIsISO ==
    Done("getWeekNumberByDate") =>
        LET day == LocalDayOf(date0)
            monday == Week1Monday(YearFromTime(TV(day, 0)))
        IN  day >= monday => ret.int = ((day - monday) \div 7) + 1

\* C3: isLeapYear(date) is true exactly when the year of the date is a leap
\* year, whatever its month and day (the year read in UTC or in local time).
C3_LeapYearOfTheDate ==
    Done("isLeapYear") =>
        \/ ret.val = InLeapYear(YearFromTime(date0))
        \/ ret.val = InLeapYear(YearFromTime(LocalTime(zone, date0)))

\* Whether result is the first Friday the 13th after the day start.
FirstFriday13After(start, result) ==
    /\ result > start
    /\ IsFriday13Day(result)
    /\ \A day \in (start + 1)..(result - 1) : ~IsFriday13Day(day)

\* C4: getNextFridayThe13th returns the earliest date strictly after the
\* input date that is a Friday and the 13th, also when the input date is
\* itself a Friday the 13th (the dates read in UTC, or both in local time).
C4_NextFriday13IsLater ==
    Done("getNextFridayThe13th") =>
        \/ FirstFriday13After(date0.day, ret.tv.day)
        \/ FirstFriday13After(LocalDayOf(date0), LocalDayOf(ret.tv))

\* C5: getNextFriday returns the instant 6 days on from a Saturday, 7 days
\* on from a Friday and 5 - w days on from weekday w otherwise: a UTC
\* Friday, later than the input by at most 7 days, the time of day the same.
C5_NextFridayExactDays ==
    Done("getNextFriday") =>
        LET w == WeekDay(date0)
            days == IF w = 6 THEN 6 ELSE IF w = 5 THEN 7 ELSE 5 - w
        IN  /\ ret.tv = TV(date0.day + days, date0.ms)
            /\ WeekDay(ret.tv) = 5
            /\ days \in 1..7

\* C6: the hour formatDate prints is 12 for UTC hour 0, h for 1..12 and
\* h - 12 for 13..23, so one of 1..12, and the suffix is AM exactly when
\* h < 12 and PM exactly when h >= 12.
C6_TwelveHourClock ==
    Done("formatDate") =>
        LET h == ISOHour(args.date)
        IN  /\ HourField(ret.val) = NatToString(Hour12(h))
            /\ StringToNumber(HourField(ret.val)) \in 1..12
            /\ (Suffix(ret.val) = <<"A", "M">>) <=> (h < 12)
            /\ (Suffix(ret.val) = <<"P", "M">>) <=> (h >= 12)

\* Midnight UTC was formatted, as 12 AM.
C6_MidnightPrinted ==
    /\ Done("formatDate")
    /\ ISOHour(args.date) = 0
    /\ HourField(ret.val) = <<"1", "2">>
    /\ Suffix(ret.val) = <<"A", "M">>

\* C7: for end >= start getCountDaysOnPeriod returns an integer, the whole
\* days from start to end plus 1 (so at least 1), also when the two are not
\* a whole number of days apart.
C7_DayCountIsInteger ==
    Done("getCountDaysOnPeriod") =>
        /\ ret.frac = 0
        /\ ret.int = DiffDays(ParseISO(args.dateEnd), ParseISO(args.dateStart))[1] + 1
        /\ ret.int >= 1

\* Months from the month of t1 to the month of t2.
MonthsBetween(t1, t2) ==
    (12 * YearFromTime(t2) + MonthFromTime(t2))
        - (12 * YearFromTime(t1) + MonthFromTime(t1))

\* C8: the search of getNextFridayThe13th moves its cursor one day at a
\* time and ends on a Friday the 13th after at most 427 steps, no more than
\* 14 calendar months on.
C8_SearchEnds ==
    fn = "getNextFridayThe13th" =>
        /\ steps <= 427
        /\ pc = "search" =>
              /\ date = TV(date0.day + steps, date0.ms)
              /\ ~IsFriday13Day(date.day) => steps < 427
        /\ pc = "done" =>
              /\ IsFriday13Day(date0.day + steps)
              /\ \A k \in 0..(steps - 1) : ~IsFriday13Day(date0.day + k)
              /\ MonthsBetween(date0, TV(date0.day + steps, 0)) <= 14

\* The longest search ended: 426 steps, 14 months on.
C8_LongestSearchEnded ==
    /\ Done("getNextFridayThe13th")
    /\ steps = 426
    /\ MonthsBetween(date0, TV(date0.day + steps, 0)) = 14

\* C9: after a call of getNextFriday, getNextFridayThe13th,
\* getWeekNumberByDate, getQuarter or getTime the caller's Date is the
\* instant it was, and a Date returned is another object.
C9_OnlyLeapYearChangesItsDate ==
    /\ pc = "done"
    /\ fn \in {"getNextFriday", "getNextFridayThe13th", "getWeekNumberByDate",
               "getQuarter", "getTime"}
    => /\ date = date0
       /\ ret.kind = "Date" => ~ret.same

\* C10: formatDate returns the same string on every host, whatever its
\* offset from UTC: every printed field is that of the UTC instant.
C10_FormatIsTheSameEverywhere ==
    Done("formatDate") => ret.val = UTCFormat(args.date)

=============================================================================
